---- MODULE Spec2Model ----
(***************************************************************************)
(* Retrieval-and-orchestration core of the RAG system.                     *)
(*                                                                         *)
(*   SpecSearch : RAGEngine.similarity_search (scoring, ranking, result    *)
(*                cache) and AdvancedRAGEngine.advanced_search (dispatch,  *)
(*                fusion, post-processing).                                *)
(*   SpecExec   : AgentOrchestrator.execute_query, one strategy with its   *)
(*                fallback.                                                *)
(*   SpecCoord  : AgentOrchestrator.coordinate_agents, the coordinator and *)
(*                the executor tasks it creates, with cancellation.        *)
(*                                                                         *)
(* Scores are exact rationals in units of 1/1000 (900 stands for 0.9).     *)
(* A content string is the set of its lower-cased whitespace tokens, which *)
(* is all that _calculate_content_similarity reads of it.                  *)
(***************************************************************************)
EXTENDS Integers, Sequences, FiniteSets, TLC

VARIABLES store, storeUp, cache, calls, last, agents, ex, co, reg, th, cx, sc,
          cl, hb, rc, sg, gr, mc

searchVars == <<store, storeUp, cache, calls, last>>
orchVars == <<agents, ex, co>>
moreVars == <<reg, th, cx, sc>>
lateVars == <<cl, hb, rc, sg, gr, mc>>
vars == <<searchVars, orchVars, moreVars, lateVars>>

\* The parts of the state a specification does not use stay at these values.
NoRegistry == [pc |-> "unused"]
NoThreads == [pc |-> "unused"]
NoContext == [pc |-> "unused"]
NoScoring == [pc |-> "unused"]
Unused == [pc |-> "unused"]

\* The classifier, the streams, context retrieval, streamed generation,
\* response generation and the in-memory cache are not exercised.
LateUnused ==
    /\ cl = Unused
    /\ hb = Unused
    /\ rc = Unused
    /\ sg = Unused
    /\ gr = Unused
    /\ mc = Unused

\* ------------------------------------------------------------------ bounds
\* size of the document universe
NDocs == 3
\* number of search calls in one behaviour
MaxCalls == 2

\* ----------------------------------------------------------------- helpers
Min(a, b) == IF a <= b THEN a ELSE b
Max(a, b) == IF a >= b THEN a ELSE b
Range(s) == {s[i] : i \in 1..Len(s)}
Take(s, n) == SubSeq(s, 1, Min(Max(n, 0), Len(s)))

\* Optional values: None is the empty tuple, a present value v is <<v>>.
None == <<>>
Some(v) == <<v>>

\* Python's s[:k]: a negative k drops the last -k elements, None keeps all.
PySlice(s, k) ==
    IF k = None THEN s
    ELSE IF k[1] >= 0 THEN Take(s, k[1])
    ELSE Take(s, Len(s) + k[1])

\* sorted(..., key=score, reverse=True): stable, descending.
InsertDesc(sorted, x) ==
    LET n == Cardinality({i \in 1..Len(sorted) : sorted[i].score >= x.score})
    IN SubSeq(sorted, 1, n) \o <<x>> \o SubSeq(sorted, n + 1, Len(sorted))

RECURSIVE SortDesc(_)
SortDesc(s) ==
    IF Len(s) <= 1 THEN s
    ELSE InsertDesc(SortDesc(SubSeq(s, 1, Len(s) - 1)), s[Len(s)])

RECURSIVE FilterSeq(_, _)
FilterSeq(s, thr) ==
    IF s = <<>> THEN <<>>
    ELSE IF Head(s).score >= thr THEN <<Head(s)>> \o FilterSeq(Tail(s), thr)
    ELSE FilterSeq(Tail(s), thr)

\* --------------------------------------------------------------- documents
Docs == 1..NDocs

\* Tokens of a stored document's content.  Documents 1 and 2 overlap 5/6,
\* documents 2 and 4 overlap 6/7, documents 1 and 4 overlap 5/7.
DocWords(d) ==
    CASE d = 1 -> 1..5
      [] d = 2 -> 1..6
      [] d = 3 -> {7, 8}
      [] d = 4 -> 1..7
      [] OTHER -> {10 + d}

\* Per-scorer scores of the one query against each document.
TfIdfScore(d) == CASE d = 1 -> 900 [] d = 2 -> 800 [] d = 3 -> 650 [] d = 4 -> 50 [] OTHER -> 0
JaccardScore(d) == CASE d = 1 -> 900 [] d = 2 -> 800 [] d = 3 -> 200 [] d = 4 -> 100 [] OTHER -> 0
SemanticScore(d) == CASE d = 1 -> 900 [] d = 2 -> 800 [] d = 3 -> 750 [] d = 4 -> 50 [] OTHER -> 0

\* calculate_hybrid_similarity: 0.4 tfidf + 0.2 jaccard + 0.4 semantic
HybridScore(d) == (4 * TfIdfScore(d) + 2 * JaccardScore(d) + 4 * SemanticScore(d)) \div 10

\* similarity_search's choice of scorer: every name but tfidf, jaccard and
\* semantic falls through to the hybrid scorer.
ScoreOf(alg, d) ==
    CASE alg = "tfidf" -> TfIdfScore(d)
      [] alg = "jaccard" -> JaccardScore(d)
      [] alg = "semantic" -> SemanticScore(d)
      [] OTHER -> HybridScore(d)

\* ------------------------------------------------------- program constants
\* RAGEngine.similarity_threshold
BaseThreshold == 50
\* SimilarityEngine.rank_documents: the top_k used for a missing or
\* non-positive top_k
DefaultTopK == 5
\* _deduplicate_results: two contents are duplicates above this overlap (0.8)
DupNum == 8
DupDen == 10

\* AdvancedRAGEngine.algorithm_configs[algorithm]["threshold"]
ConfigThreshold(alg) ==
    CASE alg = "semantic" -> 600
      [] alg = "keyword" -> 400
      [] alg = "hybrid" -> 500
      [] alg = "fuzzy" -> 800
      [] alg = "contextual" -> 600

\* ------------------------------------------------------------ result cache
\* cache.get / cache.set of the cache collaborator: a map from key to the
\* stored list; a key that was never set, or has expired, reads as absent.
\* An empty list reads like absent: similarity_search tests `if cached_result`.
AdvancedAlgs == {"semantic", "keyword", "hybrid", "fuzzy", "contextual"}
BaseAlgs == {"hybrid"}

\* top_k values the calls are made with
TopKs == {None, Some(0 - 3), Some(0), Some(2)}

\* similarity thresholds the calls are made with (None: not given)
Thresholds == {None, Some(900)}

CacheGet(c, key) == IF key \in DOMAIN c THEN c[key] ELSE <<>>
CacheSet(c, key, value) ==
    [x \in DOMAIN c \cup {key} |-> IF x = key THEN value ELSE c[x]]
CacheDrop(c, key) == [x \in DOMAIN c \ {key} |-> c[x]]

\* ------------------------------------------------------- SimilarityEngine
\* rank_documents: coerce top_k, filter by threshold, stable sort descending,
\* cut to top_k.
CoerceTopK(k) == IF k = None \/ k[1] <= 0 THEN DefaultTopK ELSE k[1]

rank_documents(similarities, k, thr) ==
    Take(SortDesc(FilterSeq(similarities, thr)), CoerceTopK(k))

\* --------------------------------------------------------------- RAGEngine
\* _get_all_documents: the stored documents, or [] when the store fails.
RECURSIVE SetToSeq(_)
SetToSeq(S) ==
    IF S = {} THEN <<>>
    ELSE LET m == CHOOSE x \in S : \A y \in S : x <= y
         IN <<m>> \o SetToSeq(S \ {m})

GetAllDocuments(st, up) == IF up THEN SetToSeq(st) ELSE <<>>

Similarities(alg, docs) ==
    [i \in 1..Len(docs) |-> [doc |-> docs[i], score |-> ScoreOf(alg, docs[i])]]

\* similarity_search: the result list and the cache it leaves behind.  The
\* cache key is (query, top_k, algorithm).
similarity_search(c, st, up, k, thrOpt, alg) ==
    LET thr == IF thrOpt = None THEN BaseThreshold ELSE thrOpt[1]
        key == [k |-> k, alg |-> alg]
        docs == GetAllDocuments(st, up)
        results == rank_documents(Similarities(alg, docs), k, thr)
    IN IF CacheGet(c, key) # <<>> THEN [res |-> CacheGet(c, key), cache |-> c]
       ELSE IF docs = <<>> THEN [res |-> <<>>, cache |-> c]
       ELSE [res |-> results, cache |-> CacheSet(c, key, results)]

\* ------------------------------------------------------- AdvancedRAGEngine
\* Tokens of a fabricated result's content, "Mock <kind> result for '<q>'";
\* kind 0 is the kind-less content of advanced_search's own fallback.
MockWords(kind) == {200 + kind, 301, 302, 303, 304}

\* chunk_id of a converted result: the dictionaries of similarity_search
\* carry no chunk_id, so every conversion falls back to "chunk_<i>", the
\* position in the list.
ChunkId(i) == [kind |-> "chunk", n |-> i]
MockChunkId(kind) == [kind |-> "mock", n |-> kind]

\* The conversion loop shared by _semantic_search, _keyword_search,
\* _fuzzy_search and _contextual_search.
ToSearchResults(results, alg) ==
    [i \in 1..Len(results) |->
        [doc |-> results[i].doc, words |-> DocWords(results[i].doc),
         chunk |-> ChunkId(i - 1), position |-> i - 1,
         score |-> results[i].score, conf |-> results[i].score, alg |-> alg]]

MockResult(kind, alg, score) ==
    [doc |-> 0, words |-> MockWords(kind), chunk |-> MockChunkId(kind),
     position |-> 0, score |-> score, conf |-> score, alg |-> alg]

Doubled(k) == Some(2 * k[1])

\* _semantic_search: base search with top_k * 2, the call's threshold and the
\* base engine's default algorithm; `None * 2` raises inside the try block and
\* the handler answers with a fabricated result.
semantic_search(c, st, up, k, thr) ==
    IF k = None THEN [res |-> <<MockResult(1, "semantic", 800)>>, cache |-> c]
    ELSE LET b == similarity_search(c, st, up, Doubled(k), Some(thr), "hybrid")
         IN [res |-> ToSearchResults(b.res, "semantic"), cache |-> b.cache]

\* _keyword_search and _fuzzy_search: base search with top_k * 2 and the
\* algorithm's name, no threshold.  When the base call raises (top_k is None)
\* the database path runs and ends in [] at `query.top_k * 2`.
named_search(c, st, up, k, alg) ==
    IF k = None THEN [res |-> <<>>, cache |-> c]
    ELSE LET b == similarity_search(c, st, up, Doubled(k), None, alg)
         IN [res |-> ToSearchResults(b.res, alg), cache |-> b.cache]

\* _contextual_search: as above; when the base call raises, the semantic
\* results are boosted by 1.1 instead.
Boost(r) == [r EXCEPT !.score = (11 * r.score) \div 10,
                      !.conf = (11 * r.conf) \div 10,
                      !.alg = "contextual"]

contextual_search(c, st, up, k, thr) ==
    IF k = None
    THEN LET sem == semantic_search(c, st, up, k, thr)
         IN [res |-> [i \in 1..Len(sem.res) |-> Boost(sem.res[i])], cache |-> sem.cache]
    ELSE named_search(c, st, up, k, "contextual")

\* _combine_search_results: fuse by chunk_id, semantic entries first, then
\* the keyword entries whose chunk_id is new; 0.7 / 0.3 weights; stable sort
\* descending by the combined score.
KeywordScoreOf(chunk, kw) ==
    IF \E j \in 1..Len(kw) : kw[j].chunk = chunk
    THEN kw[CHOOSE j \in 1..Len(kw) : kw[j].chunk = chunk].score
    ELSE 0

RECURSIVE KeywordOnly(_, _)
KeywordOnly(kw, sem) ==
    IF kw = <<>> THEN <<>>
    ELSE IF \E i \in 1..Len(sem) : sem[i].chunk = Head(kw).chunk
         THEN KeywordOnly(Tail(kw), sem)
         ELSE <<Head(kw)>> \o KeywordOnly(Tail(kw), sem)

combine_search_results(sem, kw) ==
    LET fusedSem == [i \in 1..Len(sem) |->
                       [sem[i] EXCEPT !.score =
                           (7 * sem[i].score + 3 * KeywordScoreOf(sem[i].chunk, kw)) \div 10]]
        only == KeywordOnly(kw, sem)
        fusedKw == [j \in 1..Len(only) |->
                       [only[j] EXCEPT !.score = (3 * only[j].score) \div 10]]
    IN SortDesc(fusedSem \o fusedKw)

\* _calculate_content_similarity(a, b) > 0.8
NearDuplicate(w1, w2) ==
    /\ w1 # {}
    /\ w2 # {}
    /\ DupDen * Cardinality(w1 \cap w2) > DupNum * Cardinality(w1 \cup w2)

\* A deduplication loop in which a near duplicate replaces the results kept
\* before it.
RECURSIVE DedupLoopKeepLast(_, _)
DedupLoopKeepLast(rest, unique) ==
    IF rest = <<>> THEN unique
    ELSE LET others == SelectSeq(unique,
                          LAMBDA u : ~NearDuplicate(Head(rest).words, u.words))
         IN DedupLoopKeepLast(Tail(rest), Append(others, Head(rest)))

\* _deduplicate_results: keep a result unless it is a near duplicate of one
\* kept before it, in list order.
RECURSIVE DedupLoop(_, _)
DedupLoop(rest, unique) ==
    IF rest = <<>> THEN unique
    ELSE IF \E u \in Range(unique) : NearDuplicate(Head(rest).words, u.words)
         THEN DedupLoop(Tail(rest), unique)
         ELSE DedupLoop(Tail(rest), Append(unique, Head(rest)))

\* A deduplication step that keeps every result.
keep_all_results(results) == results

deduplicate_results(results) ==
    IF results = <<>> THEN results
    ELSE DedupLoop(Tail(results), <<Head(results)>>)

\* _post_process_results: filter, deduplicate, sort, cut to query.top_k.
post_process_results(results, thr, k) ==
    PySlice(SortDesc(deduplicate_results(FilterSeq(results, thr))), k)

\* _hybrid_search: semantic, then keyword, fused and cut to query.top_k.
hybrid_candidates(c, st, up, k, thr) ==
    LET sem == semantic_search(c, st, up, k, thr)
        kw == named_search(sem.cache, st, up, k, "keyword")
    IN [res |-> combine_search_results(sem.res, kw.res), cache |-> kw.cache]

hybrid_search(c, st, up, k, thr) ==
    LET h == hybrid_candidates(c, st, up, k, thr)
    IN [res |-> PySlice(h.res, k), cache |-> h.cache, fused |-> h.res]

\* The threshold advanced_search puts into the SearchQuery.
ThresholdInForce(alg, thrOpt) ==
    IF thrOpt = None \/ thrOpt[1] = 0 THEN ConfigThreshold(alg) ELSE thrOpt[1]

\* The dispatch of advanced_search.
dispatch(c, st, up, alg, k, thr) ==
    CASE alg = "hybrid" -> hybrid_search(c, st, up, k, thr)
      [] alg = "semantic" -> semantic_search(c, st, up, k, thr)
      [] alg = "contextual" -> contextual_search(c, st, up, k, thr)
      [] OTHER -> named_search(c, st, up, k, alg)

\* advanced_search: dispatch, then post-process.  (The search results it
\* stores with _cache_search_results are never read back.)  cands records
\* the candidate list before any cut to top_k: the fused list for hybrid,
\* the converted list of the inner search otherwise.
advanced_search(c, st, up, alg, k, thrOpt) ==
    LET thr == ThresholdInForce(alg, thrOpt)
        d == dispatch(c, st, up, alg, k, thr)
    IN [res |-> post_process_results(d.res, thr, k), cache |-> d.cache,
        cands |-> IF alg = "hybrid" THEN d.fused ELSE d.res]

\* ------------------------------------------------------- AgentOrchestrator
\* AgentType values, the keys of agent_configs
AgentTypes == {"general", "analytical", "creative", "technical", "research", "summary"}

\* AgentOrchestrator.max_concurrent_agents
MaxConcurrentAgents == 3

\* A query is the set of indicator words that occur in its lower-cased text
\* (`indicator in query_lower`).  A text that holds "architecture" holds
\* "architect" too.
Queries ==
    { {},
      {"what"},
      {"analyze", "data"},
      {"design", "creative"},
      {"summarize", "research"},
      {"how", "architect", "architecture"} }

\* analyze_query: complexity_indicators, in the dictionary's order
ComplexityOrder == <<"simple", "moderate", "complex", "expert">>

ComplexityIndicators(c) ==
    CASE c = "simple" -> {"what", "when", "where", "who", "how", "define", "explain"}
      [] c = "moderate" -> {"compare", "describe", "list", "outline", "summarize"}
      [] c = "complex" -> {"analyze", "evaluate", "investigate", "examine", "assess"}
      [] c = "expert" -> {"design", "optimize", "implement", "architect", "strategize"}

\* analyze_query: agent_indicators, in the dictionary's order
AgentOrder == <<"analytical", "creative", "technical", "research", "summary">>

AgentIndicators(a) ==
    CASE a = "analytical" -> {"analyze", "compare", "evaluate", "calculate", "statistics", "data"}
      [] a = "creative" -> {"creative", "innovative", "brainstorm", "ideas", "design", "concept"}
      [] a = "technical" -> {"code", "programming", "technical", "system", "architecture", "implementation"}
      [] a = "research" -> {"research", "investigate", "study", "comprehensive", "thorough"}
      [] a = "summary" -> {"summarize", "summary", "brief", "overview", "executive"}

\* A complexity-first scan that does not stop at the first match.
RECURSIVE LastComplexity(_, _)
LastComplexity(q, i) ==
    IF i > Len(ComplexityOrder) THEN "simple"
    ELSE LET later == LastComplexity(q, i + 1)
         IN IF later # "simple" THEN later
            ELSE IF q \cap ComplexityIndicators(ComplexityOrder[i]) # {}
                 THEN ComplexityOrder[i]
                 ELSE "simple"

\* The first complexity family with an indicator in the query; simple if none.
RECURSIVE FirstComplexity(_, _)
FirstComplexity(q, i) ==
    IF i > Len(ComplexityOrder) THEN "simple"
    ELSE IF q \cap ComplexityIndicators(ComplexityOrder[i]) # {} THEN ComplexityOrder[i]
    ELSE FirstComplexity(q, i + 1)

\* The agent type with strictly the most indicator matches; the earlier type
\* keeps a tie, general when nothing matches.
RECURSIVE BestAgent(_, _, _, _)
BestAgent(q, i, best, maxMatches) ==
    IF i > Len(AgentOrder) THEN [agent_type |-> best, matches |-> maxMatches]
    ELSE LET m == Cardinality(q \cap AgentIndicators(AgentOrder[i]))
         IN IF m > maxMatches THEN BestAgent(q, i + 1, AgentOrder[i], m)
            ELSE BestAgent(q, i + 1, best, maxMatches)

\* A classifier that prefers a strategy whose executor is already registered.
analyze_query_registered(q) ==
    LET b == BestAgent(q, 1, "general", 0)
    IN [complexity |-> FirstComplexity(q, 1),
        agent_type |-> IF agents # {} /\ b.agent_type \notin agents
                       THEN "general" ELSE b.agent_type,
        confidence |-> Min(27, 10 * b.matches + 9)]

\* analyze_query; confidence min(0.9, matches / 3 + 0.3) in units of 1/30.
analyze_query(q) ==
    LET b == BestAgent(q, 1, "general", 0)
    IN [complexity |-> FirstComplexity(q, 1),
        agent_type |-> b.agent_type,
        confidence |-> Min(27, 10 * b.matches + 9)]

\* get_or_create_agent: the registry after the call; a type without a
\* configuration raises KeyError and leaves the registry as it was.
get_or_create_agent(ags, type) ==
    IF type \in ags THEN [ok |-> TRUE, agents |-> ags]
    ELSE IF type \in AgentTypes THEN [ok |-> TRUE, agents |-> ags \cup {type}]
    ELSE [ok |-> FALSE, agents |-> ags]

\* How one run of an executor's execute_query ends: it returns an answer, it
\* returns its error dictionary (assistant unavailable, or an exception it
\* caught itself), or it raises.
Outcomes == {"ok", "error", "raise"}

\* The dictionaries the calls return, reduced to the keys read downstream:
\* response ("none": no such key), error (the key is present), status, the
\* orchestration agent_type, and note (a "generated without AI" note).
AgentAnswer ==
    [raised |-> FALSE, response |-> "answer", error |-> FALSE, status |-> "none",
     orchestration |-> "none", note |-> FALSE, source |-> "agent"]

AgentError ==
    [raised |-> FALSE, response |-> "error_text", error |-> TRUE, status |-> "error",
     orchestration |-> "none", note |-> FALSE, source |-> "agent"]

AllFailedResult ==
    [raised |-> FALSE, response |-> "all_agents_failed", error |-> TRUE, status |-> "error",
     orchestration |-> "unknown", note |-> FALSE, source |-> "orchestrator"]

\* The call ends with the exception instead of a dictionary.
Raised ==
    [raised |-> TRUE, response |-> "none", error |-> TRUE, status |-> "none",
     orchestration |-> "none", note |-> FALSE, source |-> "none"]

ExecutorResult(outcome) == IF outcome = "ok" THEN AgentAnswer ELSE AgentError

\* _execute_sync_query: the executor's dictionary with the orchestration
\* metadata added.
execute_sync_query(outcome, type) ==
    [ExecutorResult(outcome) EXCEPT !.orchestration = type]

Attempt(tier, ran, outcome) == [tier |-> tier, ran |-> ran, outcome |-> outcome]

\* A fallback that lets the general executor's exception through.
fallback_unguarded(ags, outG) ==
    LET g == get_or_create_agent(ags, "general")
    IN [result |-> IF outG = "raise" THEN Raised ELSE ExecutorResult(outG),
        agents |-> g.agents,
        tried |-> <<Attempt("general", TRUE, outG)>>]

\* The handler of execute_query: the general executor, and the "All agents
\* failed" dictionary when that raises too.
fallback(ags, outG) ==
    LET g == get_or_create_agent(ags, "general")
    IN [result |-> IF ~g.ok \/ outG = "raise" THEN AllFailedResult
                   ELSE ExecutorResult(outG),
        agents |-> g.agents,
        tried |-> <<Attempt("general", g.ok, IF g.ok THEN outG ELSE "raise")>>]

\* execute_query without streaming.  analysisOk: analyze_query returns (it
\* raises on a query that is no string); force: force_agent_type; outP and
\* outG: how the primary and the general executor end when they are run.
execute_query(ags, q, analysisOk, force, outP, outG) ==
    LET type == IF force # None THEN force[1] ELSE analyze_query(q).agent_type
        g == get_or_create_agent(ags, type)
        ran == analysisOk /\ g.ok
        ags1 == IF analysisOk THEN g.agents ELSE ags
        first == Attempt("primary", ran, IF ran THEN outP ELSE "raise")
    IN IF ran /\ outP # "raise"
       THEN [result |-> execute_sync_query(outP, type), agents |-> ags1,
             tried |-> <<first>>]
       ELSE LET f == fallback(ags1, outG)
            IN [result |-> f.result, agents |-> f.agents,
                tried |-> <<first>> \o f.tried]

\* coordinate_agents: the strategies it selects when none are given.
auto_select(q) ==
    LET analysis == analyze_query(q)
    IN IF analysis.complexity \in {"complex", "expert"}
       THEN <<"research", "analytical", "general">>
       ELSE <<analysis.agent_type>>

\* Launching every selected strategy.
launch_all(types) == types

\* coordinate_agents: the strategies it launches, agent_types[:max_concurrent_agents].
launch_list(types) == Take(types, MaxConcurrentAgents)

\* results[agent_type.value] = entry: a dictionary keeps a key's first position.
DictSet(d, key, entry) ==
    IF \E i \in 1..Len(d) : d[i].key = key
    THEN [i \in 1..Len(d) |-> IF d[i].key = key THEN [key |-> key, entry |-> entry] ELSE d[i]]
    ELSE Append(d, [key |-> key, entry |-> entry])

\* The entry coordinate_agents stores for an awaited task: the task's
\* dictionary, or {"error": str(e)} when awaiting it raised.
ResultEntry(outcome) ==
    IF outcome = "raise"
    THEN [response |-> "none", error |-> TRUE]
    ELSE [response |-> ExecutorResult(outcome).response,
          error |-> ExecutorResult(outcome).error]

RECURSIVE SuccessfulKeys(_)
SuccessfulKeys(d) ==
    IF d = <<>> THEN <<>>
    ELSE IF ~Head(d).entry.error /\ Head(d).entry.response # "none"
         THEN <<Head(d).key>> \o SuccessfulKeys(Tail(d))
         ELSE SuccessfulKeys(Tail(d))

\* _synthesize_agent_results and the status coordinate_agents adds: one
\* section per successful entry, in the dictionary's order; status is
\* "success" whenever the response text is non-empty.
synthesize_agent_results(d) ==
    LET sections == SuccessfulKeys(d)
    IN IF sections = <<>>
       THEN [response |-> "all_agents_failed", error |-> TRUE, sections |-> <<>>,
             agent_results |-> d, status |-> "success"]
       ELSE [response |-> "combined", error |-> FALSE, sections |-> sections,
             agent_results |-> d, status |-> "success"]

NoExec == [pc |-> "idle", type |-> "none", tried |-> <<>>, result |-> Raised]

NoOut ==
    [response |-> "none", error |-> FALSE, sections |-> <<>>,
     agent_results |-> <<>>, status |-> "none"]

NoCoord ==
    [pc |-> "idle", selected |-> <<>>, tasks |-> <<>>, awaited |-> 0,
     results |-> <<>>, out |-> NoOut]

\* ------------------------------------------------------------ search calls
NoCall ==
    [op |-> "none", alg |-> "none", k |-> None, thr |-> 0, res |-> <<>>,
     cands |-> <<>>, docs |-> <<>>]

EmptyCache == [key \in {} |-> <<>>]

\* The store holds the first n documents, for every n up to NDocs.
InitialStores == {1..n : n \in 0..NDocs}

SearchInit ==
    /\ store \in InitialStores
    /\ storeUp = TRUE
    /\ cache = EmptyCache
    /\ calls = 0
    /\ LateUnused
    /\ last = NoCall
    /\ agents = {}
    /\ ex = NoExec
    /\ co = NoCoord
    /\ reg = NoRegistry
    /\ th = NoThreads
    /\ cx = NoContext
    /\ sc = NoScoring

\* A direct call of RAGEngine.similarity_search.  `last` keeps the call's
\* arguments, the threshold in force, the returned list, the full scored
\* list (cands) and the documents the store delivers at the time (docs).
BaseSearch(alg, k, thrOpt) ==
    LET r == similarity_search(cache, store, storeUp, k, thrOpt, alg)
        docs == GetAllDocuments(store, storeUp)
    IN /\ calls < MaxCalls
       /\ calls' = calls + 1
       /\ cache' = r.cache
       /\ last' = [op |-> "base", alg |-> alg, k |-> k,
                   thr |-> IF thrOpt = None THEN BaseThreshold ELSE thrOpt[1],
                   res |-> r.res,
                   cands |-> Similarities(alg, docs),
                   docs |-> docs]
       /\ UNCHANGED <<lateVars, store, storeUp, orchVars, moreVars>>

\* A call of AdvancedRAGEngine.advanced_search.
AdvancedSearch(alg, k, thrOpt) ==
    LET r == advanced_search(cache, store, storeUp, alg, k, thrOpt)
    IN /\ calls < MaxCalls
       /\ calls' = calls + 1
       /\ cache' = r.cache
       /\ last' = [op |-> "advanced", alg |-> alg, k |-> k,
                   thr |-> ThresholdInForce(alg, thrOpt),
                   res |-> r.res,
                   cands |-> r.cands,
                   docs |-> GetAllDocuments(store, storeUp)]
       /\ UNCHANGED <<lateVars, store, storeUp, orchVars, moreVars>>

\* A cache entry reaches its time to live.
CacheExpire(key) ==
    /\ calls < MaxCalls
    /\ key \in DOMAIN cache
    /\ cache' = CacheDrop(cache, key)
    /\ UNCHANGED <<lateVars, store, storeUp, calls, last, orchVars, moreVars>>

\* The document store becomes unavailable, or available again.
StoreFail ==
    /\ calls < MaxCalls
    /\ storeUp
    /\ storeUp' = FALSE
    /\ UNCHANGED <<lateVars, store, cache, calls, last, orchVars, moreVars>>

StoreRecover ==
    /\ calls < MaxCalls
    /\ ~storeUp
    /\ storeUp' = TRUE
    /\ UNCHANGED <<lateVars, store, cache, calls, last, orchVars, moreVars>>

SearchNext ==
    \/ \E alg \in BaseAlgs, k \in TopKs, t \in Thresholds : BaseSearch(alg, k, t)
    \/ \E alg \in AdvancedAlgs, k \in TopKs, t \in Thresholds : AdvancedSearch(alg, k, t)
    \/ \E key \in DOMAIN cache : CacheExpire(key)
    \/ StoreFail
    \/ StoreRecover

SpecSearch == SearchInit /\ [][SearchNext]_vars

\* ------------------------------------------------- properties of the search
IsAdvanced == last.op = "advanced"
IsCall == last.op # "none"
InvalidTopK(k) == k = None \/ k[1] <= 0

\* C1: no returned result has a score below the threshold in force for the
\* call, whether the call was computed, answered from the result cache, or
\* ended in a failure.
C1_NoResultBelowThreshold ==
    IsCall => \A i \in 1..Len(last.res) : last.res[i].score >= last.thr

\* C2: for every algorithm the cut to top_k is the last step: the returned
\* list is the first top_k of the filtered, de-duplicated, sorted candidates.
C2_TruncationIsLast ==
    (IsAdvanced /\ ~InvalidTopK(last.k)) =>
        last.res = Take(SortDesc(deduplicate_results(FilterSeq(last.cands, last.thr))),
                        last.k[1])

WithTopKFive(c, st, up, lst) ==
    IF lst.op = "advanced"
    THEN advanced_search(c, st, up, lst.alg, Some(DefaultTopK), Some(lst.thr)).res
    ELSE similarity_search(c, st, up, Some(DefaultTopK), Some(lst.thr), lst.alg).res

\* C4: a call with top_k missing, zero or negative returns what the same call
\* returns with top_k = 5.
C4_InvalidTopKIsFive ==
    [][(calls' = calls + 1 /\ InvalidTopK(last'.k)) =>
          last'.res = WithTopKFive(cache, store, storeUp, last')]_vars

\* C5: when the store delivers no documents (it is empty or unavailable) the
\* call returns the empty list.
C5_NoDocumentsNoResults ==
    (IsCall /\ last.docs = <<>>) => last.res = <<>>

\* ------------------------------------------------ single-strategy execution
\* force_agent_type values: not given, two agent types, and a value that is
\* no key of agent_configs.
Forces == {None, Some("technical"), Some("general"), Some("bogus")}

ExecInit ==
    /\ store = {}
    /\ storeUp = TRUE
    /\ cache = EmptyCache
    /\ calls = 0
    /\ LateUnused
    /\ last = NoCall
    /\ agents = {}
    /\ ex = NoExec
    /\ co = NoCoord
    /\ reg = NoRegistry
    /\ th = NoThreads
    /\ cx = NoContext
    /\ sc = NoScoring

\* One call of AgentOrchestrator.execute_query(stream=False), start to return.
ExecuteQuery(q, analysisOk, force, outP, outG) ==
    LET r == execute_query(agents, q, analysisOk, force, outP, outG)
    IN /\ agents' = r.agents
       /\ ex' = [pc |-> "done",
                 type |-> IF ~analysisOk THEN "none"
                          ELSE IF force # None THEN force[1]
                          ELSE analyze_query(q).agent_type,
                 tried |-> r.tried,
                 result |-> r.result]
       /\ UNCHANGED <<lateVars, searchVars, moreVars, co>>

ExecNext ==
    \E q \in Queries, analysisOk \in BOOLEAN, force \in Forces,
       outP \in Outcomes, outG \in Outcomes :
        ExecuteQuery(q, analysisOk, force, outP, outG)

SpecExec == ExecInit /\ [][ExecNext]_vars

PrimaryFailed == ex.tried[1].outcome # "ok"
GeneralTried == Len(ex.tried) >= 2 /\ ex.tried[2].tier = "general"
GeneralFailed == GeneralTried /\ ex.tried[2].outcome # "ok"

\* C7: the tiers of a single-strategy execution are tried in the order
\* primary, general, context-only; the general strategy runs exactly when
\* the primary failed, and when both failed the caller gets the no-LLM
\* response built from the retrieved context, carrying its note.
C7_FallbackChain ==
    ex.pc = "done" =>
        /\ ex.tried[1].tier = "primary"
        /\ PrimaryFailed <=> GeneralTried
        /\ GeneralFailed <=> (ex.result.source = "context" /\ ex.result.note)

MaxTypes == 4

\* The strategy lists callers pass: the first n of a fixed roster.
Roster == <<"research", "analytical", "general", "creative", "technical", "summary">>
GivenLists == {Take(Roster, n) : n \in 1..MaxTypes}

CoordInit ==
    /\ store = {}
    /\ storeUp = TRUE
    /\ cache = EmptyCache
    /\ calls = 0
    /\ LateUnused
    /\ last = NoCall
    /\ agents = {}
    /\ ex = NoExec
    /\ co = NoCoord
    /\ reg = NoRegistry
    /\ th = NoThreads
    /\ cx = NoContext
    /\ sc = NoScoring

\* coordinate_agents is called: the strategies are selected.  given = <<>>
\* stands for agent_types None or empty.
CoordStart(q, given) ==
    /\ co.pc \in {"idle", "done", "cancelled"}
    /\ co' = [NoCoord EXCEPT !.pc = "launch",
                             !.selected = IF given = <<>> THEN auto_select(q) ELSE given]
    /\ UNCHANGED <<lateVars, searchVars, moreVars, agents, ex>>

\* One round of the launch loop: get or create the executor, create its task.
CoordLaunch ==
    LET types == launch_list(co.selected)
        n == Len(co.tasks)
        g == get_or_create_agent(agents, types[n + 1])
    IN /\ co.pc = "launch"
       /\ n < Len(types)
       /\ agents' = g.agents
       /\ co' = IF g.ok
                THEN [co EXCEPT !.tasks = Append(@, [type |-> types[n + 1], st |-> "running"]),
                                !.pc = IF n + 1 = Len(types) THEN "await" ELSE "launch"]
                ELSE [co EXCEPT !.pc = "raised"]
       /\ UNCHANGED <<lateVars, searchVars, moreVars, ex>>

\* A running executor task ends.
TaskFinish(i, outcome) ==
    /\ i \in 1..Len(co.tasks)
    /\ co.tasks[i].st = "running"
    /\ co' = [co EXCEPT !.tasks[i].st = outcome]
    /\ UNCHANGED <<lateVars, searchVars, moreVars, agents, ex>>

\* One round of the await loop, on a task that has ended; after the last
\* task the results are synthesized and the call returns.
CoordAwait ==
    LET i == co.awaited + 1
        results == DictSet(co.results, co.tasks[i].type, ResultEntry(co.tasks[i].st))
    IN /\ co.pc = "await"
       /\ i <= Len(co.tasks)
       /\ co.tasks[i].st \in Outcomes
       /\ co' = IF i = Len(co.tasks)
                THEN [co EXCEPT !.awaited = i, !.results = results, !.pc = "done",
                                !.out = synthesize_agent_results(results)]
                ELSE [co EXCEPT !.awaited = i, !.results = results]
       /\ UNCHANGED <<lateVars, searchVars, moreVars, agents, ex>>

\* The caller cancels the coordination call while it is suspended: in the
\* launch loop inside the initialization of a new executor, or in the await
\* loop on a running task.  asyncio passes the cancellation to the task being
\* awaited and raises CancelledError in the coordinator, which no handler of
\* coordinate_agents catches.
CoordCancel ==
    LET i == co.awaited + 1
    IN /\ \/ /\ co.pc = "launch"
             /\ launch_list(co.selected)[Len(co.tasks) + 1] \notin agents
          \/ /\ co.pc = "await"
             /\ co.tasks[i].st = "running"
       /\ co' = IF co.pc = "await"
                THEN [co EXCEPT !.pc = "cancelled", !.tasks[i].st = "cancelled"]
                ELSE [co EXCEPT !.pc = "cancelled"]
       /\ UNCHANGED <<lateVars, searchVars, moreVars, agents, ex>>

CoordNext ==
    \/ \E q \in Queries, given \in GivenLists \cup {<<>>} : CoordStart(q, given)
    \/ CoordLaunch
    \/ \E i \in 1..Len(co.tasks), outcome \in Outcomes : TaskFinish(i, outcome)
    \/ CoordAwait
    \/ CoordCancel

SpecCoord == CoordInit /\ [][CoordNext]_vars

InFlight == Cardinality({i \in 1..Len(co.tasks) : co.tasks[i].st = "running"})

RECURSIVE Succeeded(_)
Succeeded(tasks) ==
    IF tasks = <<>> THEN <<>>
    ELSE IF Head(tasks).st = "ok" THEN <<Head(tasks).type>> \o Succeeded(Tail(tasks))
    ELSE Succeeded(Tail(tasks))

FailedCount == Cardinality({i \in 1..Len(co.tasks) : co.tasks[i].st # "ok"})

\* C6: a coordination of N selected strategies of which M fail returns, when
\* M < N, a synthesized result with exactly N - M sections, one per strategy
\* that succeeded, in selection order; when M = N it returns the "all
\* strategies failed" result; the call does not raise.
C6_PartialFailureSynthesis ==
    /\ co.pc # "raised"
    /\ co.pc = "done" =>
          IF FailedCount < Len(co.selected)
          THEN /\ ~co.out.error
               /\ co.out.sections = Succeeded(co.tasks)
               /\ Len(co.out.sections) = Len(co.selected) - FailedCount
          ELSE /\ co.out.response = "all_agents_failed"
               /\ co.out.sections = <<>>

\* C9: once a coordination call is cancelled, none of the executor tasks it
\* created is still running.
C9_CancelStopsAllTasks ==
    co.pc = "cancelled" => \A i \in 1..Len(co.tasks) : co.tasks[i].st # "running"

\* C10: at no moment does one coordination call have more than
\* max_concurrent_agents executor tasks in flight.
C10_BoundedInFlight == InFlight <= MaxConcurrentAgents

\* C10 witness: more strategies were selected than the limit and the limit
\* is reached.
C10_LimitReached ==
    /\ Len(co.selected) > MaxConcurrentAgents
    /\ InFlight = MaxConcurrentAgents

\* C11: when a coordination call returns, every selected strategy has been
\* run and the result holds one entry for each of them.
C11_EverySelectedStrategyRuns ==
    co.pc = "done" =>
        /\ Len(co.tasks) = Len(co.selected)
        /\ \A n \in 1..Len(co.selected) :
              \E e \in Range(co.out.agent_results) : e.key = co.selected[n]

\* The coordination with its own steps scheduled fairly: the event loop runs
\* the coordinator whenever it can continue.  Nothing obliges the generation
\* provider to answer (TaskFinish) or the caller to cancel.
SpecCoordFair ==
    /\ CoordInit
    /\ [][CoordNext]_vars
    /\ WF_vars(CoordLaunch)
    /\ WF_vars(CoordAwait)

\* C12: a coordination call that waits for its strategy executions ends,
\* whether or not the generation provider ever answers.
C12_ExecutionIsTimeBounded ==
    (co.pc = "await") ~> (co.pc \in {"done", "cancelled"})

\* ------------------------------------------------- the executor registry
\* Overlapping requests call get_or_create_agent on the one orchestrator.
\* number of requests that overlap
NCallers == 2
\* number of get_or_create_agent calls in one behaviour
MaxGets == 4

Callers == 1..NCallers
RegTypes == {"general", "research"}

\* No executor of this type is registered.
NoInstance == 0

IdleCaller == [pc |-> "idle", type |-> "general", inst |-> NoInstance]

\* AgentExecutor.initialize suspends only when it asks the provider for the
\* assistant: a client is configured and an assistant id is set.
InitializeSuspends(client) == client

\* The orchestrator after construction: self.agents = {}.  built counts the
\* AgentExecutor() constructions per type, held the executors handed out.
RegistryInit ==
    /\ store = {}
    /\ storeUp = TRUE
    /\ cache = EmptyCache
    /\ calls = 0
    /\ LateUnused
    /\ last = NoCall
    /\ agents = {}
    /\ ex = NoExec
    /\ co = NoCoord
    /\ \E client \in BOOLEAN :
          reg = [agents |-> [t \in RegTypes |-> NoInstance],
                 built |-> [t \in RegTypes |-> 0],
                 callers |-> [c \in Callers |-> IdleCaller],
                 held |-> {},
                 client |-> client,
                 n |-> 0]
    /\ th = NoThreads
    /\ cx = NoContext
    /\ sc = NoScoring

\* get_or_create_agent up to its first suspension.  A registered type is
\* returned at once.  Otherwise an executor is constructed and initialized;
\* when initialize does not suspend, the insertion and the return follow in
\* the same step.
GetOrCreateStart(c, t) ==
    /\ reg.n < MaxGets
    /\ reg.callers[c].pc = "idle"
    /\ IF reg.agents[t] # NoInstance
       THEN reg' = [reg EXCEPT !.held = @ \cup {<<t, reg.agents[t]>>},
                               !.n = @ + 1]
       ELSE LET inst == reg.built[t] + 1
            IN IF InitializeSuspends(reg.client)
               THEN reg' = [reg EXCEPT
                              !.built[t] = inst,
                              !.callers[c] = [pc |-> "initialize", type |-> t,
                                              inst |-> inst],
                              !.n = @ + 1]
               ELSE reg' = [reg EXCEPT
                              !.built[t] = inst,
                              !.agents[t] = inst,
                              !.held = @ \cup {<<t, inst>>},
                              !.n = @ + 1]
    /\ UNCHANGED <<lateVars, searchVars, orchVars, th, cx, sc>>

\* initialize has answered: self.agents[agent_type] = agent, and the caller
\* receives self.agents[agent_type].
GetOrCreateFinish(c) ==
    /\ reg.callers[c].pc = "initialize"
    /\ LET t == reg.callers[c].type
           inst == reg.callers[c].inst
       IN reg' = [reg EXCEPT !.agents[t] = inst,
                             !.held = @ \cup {<<t, inst>>},
                             !.callers[c] = IdleCaller]
    /\ UNCHANGED <<lateVars, searchVars, orchVars, th, cx, sc>>

RegistryNext ==
    \/ \E c \in Callers, t \in RegTypes : GetOrCreateStart(c, t)
    \/ \E c \in Callers : GetOrCreateFinish(c)

SpecRegistry == RegistryInit /\ [][RegistryNext]_vars

\* C13: at most one executor is ever constructed for a type, none before the
\* type is first asked for, and every caller of a type receives the same
\* instance.
C13_OneExecutorPerType ==
    \A t \in RegTypes :
        /\ reg.built[t] <= 1
        /\ (reg.n = 0 => reg.built[t] = 0)
        /\ \A h1, h2 \in reg.held : (h1[1] = t /\ h2[1] = t) => h1[2] = h2[2]

\* ------------------------------------- the tasks of one coordination call
\* Each task runs AgentExecutor.execute_query(query, session_id) on the
\* executor of its own type; all tasks are given the one session_id.
\* number of concurrent tasks of the call
NTasks == 2

Tasks == 1..NTasks
Sessions == {None, Some("s1")}

\* No thread object is held.
NoThread == 0

\* The message an earlier request of the session left in its thread.
EarlierMessage == 0

ThreadKey(session) == [thread |-> session[1]]

NewTask == [pc |-> "start", thread |-> NoThread, seen |-> <<>>]

\* The call starts with its tasks created.  The session is new, or an
\* earlier request of it has left a thread whose id the cache may still hold.
ThreadsInit ==
    /\ store = {}
    /\ storeUp = TRUE
    /\ cache = EmptyCache
    /\ calls = 0
    /\ LateUnused
    /\ last = NoCall
    /\ agents = {}
    /\ ex = NoExec
    /\ co = NoCoord
    /\ reg = NoRegistry
    /\ \E session \in Sessions, earlier \in BOOLEAN, assistant \in BOOLEAN :
          th = [session |-> session,
                assistant |-> assistant,
                threads |-> IF earlier /\ session # None
                            THEN <<  <<EarlierMessage>>  >> ELSE <<>>,
                cache |-> IF earlier /\ session # None
                          THEN CacheSet(EmptyCache, ThreadKey(session), Some(1))
                          ELSE EmptyCache,
                tasks |-> [i \in Tasks |-> NewTask]]
    /\ cx = NoContext
    /\ sc = NoScoring

\* execute_query up to the cache lookup of _get_or_create_thread.  Without an
\* assistant the task returns its error result at once.
TaskLookup(i) ==
    /\ th.tasks[i].pc = "start"
    /\ IF ~th.assistant
       THEN th' = [th EXCEPT !.tasks[i].pc = "done"]
       ELSE IF th.session = None
       THEN th' = [th EXCEPT !.tasks[i].pc = "create"]
       ELSE LET thread_id == CacheGet(th.cache, ThreadKey(th.session))
            IN IF thread_id # None
               THEN th' = [th EXCEPT !.tasks[i].pc = "retrieve",
                                     !.tasks[i].thread = thread_id[1]]
               ELSE th' = [th EXCEPT !.tasks[i].pc = "create"]
    /\ UNCHANGED <<lateVars, searchVars, orchVars, reg, cx, sc>>

\* client.beta.threads.retrieve(thread_id): the cached thread is returned, or
\* the call raises and a new thread is created instead.
TaskRetrieve(i, found) ==
    /\ th.tasks[i].pc = "retrieve"
    /\ IF found
       THEN th' = [th EXCEPT !.tasks[i].pc = "post"]
       ELSE th' = [th EXCEPT !.tasks[i].pc = "create",
                             !.tasks[i].thread = NoThread]
    /\ UNCHANGED <<lateVars, searchVars, orchVars, reg, cx, sc>>

\* client.beta.threads.create()
TaskCreate(i) ==
    /\ th.tasks[i].pc = "create"
    /\ th' = [th EXCEPT !.threads = Append(@, <<>>),
                        !.tasks[i].thread = Len(th.threads) + 1,
                        !.tasks[i].pc = IF th.session = None THEN "post"
                                        ELSE "remember"]
    /\ UNCHANGED <<lateVars, searchVars, orchVars, reg, cx, sc>>

\* cache.set("thread:<session_id>", thread.id)
TaskRemember(i) ==
    /\ th.tasks[i].pc = "remember"
    /\ th' = [th EXCEPT !.cache = CacheSet(@, ThreadKey(th.session),
                                           Some(th.tasks[i].thread)),
                        !.tasks[i].pc = "post"]
    /\ UNCHANGED <<lateVars, searchVars, orchVars, reg, cx, sc>>

\* client.beta.threads.messages.create(thread_id, role="user", content=query)
TaskPost(i) ==
    /\ th.tasks[i].pc = "post"
    /\ th' = [th EXCEPT !.threads[th.tasks[i].thread] = Append(@, i),
                        !.tasks[i].pc = "run"]
    /\ UNCHANGED <<lateVars, searchVars, orchVars, reg, cx, sc>>

\* _execute_run(thread.id, ...): the assistant answers from the messages the
\* thread holds when the run is created.
TaskRun(i) ==
    /\ th.tasks[i].pc = "run"
    /\ th' = [th EXCEPT !.tasks[i].seen = th.threads[th.tasks[i].thread],
                        !.tasks[i].pc = "done"]
    /\ UNCHANGED <<lateVars, searchVars, orchVars, reg, cx, sc>>

ThreadsNext ==
    \/ \E i \in Tasks : TaskLookup(i)
    \/ \E i \in Tasks, found \in BOOLEAN : TaskRetrieve(i, found)
    \/ \E i \in Tasks : TaskCreate(i)
    \/ \E i \in Tasks : TaskRemember(i)
    \/ \E i \in Tasks : TaskPost(i)
    \/ \E i \in Tasks : TaskRun(i)

SpecThreads == ThreadsInit /\ [][ThreadsNext]_vars

\* C14: no two tasks of one coordination call use the same conversation
\* thread, and no task's run sees a message another task of the call posted.
C14_TasksShareNoThread ==
    \A i, j \in Tasks :
        i # j =>
            /\ (th.tasks[i].thread # NoThread /\ th.tasks[j].thread # NoThread
                   => th.tasks[i].thread # th.tasks[j].thread)
            /\ j \notin Range(th.tasks[i].seen)

\* What a fresh computation of the call recorded in `lst` returns over the
\* documents of the store st: no cached entry is consulted.
FreshResult(st, up, lst) ==
    similarity_search(EmptyCache, st, up, lst.k, Some(lst.thr), lst.alg).res

\* The similarity_search call recorded in `lst` finds an entry in cache c.
AnsweredFromCache(c, lst) ==
    lst.op = "base" /\ CacheGet(c, [k |-> lst.k, alg |-> lst.alg]) # <<>>

\* C15: a similarity_search call answered from the result cache returns what
\* a fresh computation with the same algorithm, top_k and threshold over the
\* same documents returns.
C15_CacheHitEqualsFresh ==
    [][(calls' = calls + 1 /\ storeUp /\ AnsweredFromCache(cache, last')) =>
          last'.res = FreshResult(store, storeUp, last')]_vars

\* ------------------------------------------------------- context assembly
\* _prepare_optimized_context over a ranked result list.  A text is counted,
\* cut and joined by its words only, so a text is its number of words (w)
\* and whether its last word carries the "..." truncate_to_tokens appends (e).
\* length of the ranked result list
MaxResults == 3

MaxContextTokens == 6000
Buffer == 50
MinRemaining == 100
InflationNum == 13
InflationDen == 10

\* The two builds of TokenManager: with the tiktoken encoder, and without it
\* (the word estimate).  The encoder is taken to give every word one token
\* and the appended "..." a token of its own; the estimate splits on
\* whitespace, where "..." is part of the word it is appended to.
Tokenizers == {"encoder", "estimate"}

Text(w, e) == [w |-> w, e |-> e]

count_tokens(tok, text) ==
    IF tok = "encoder" THEN text.w + text.e
    ELSE (InflationNum * text.w) \div InflationDen

\* ' '.join(words[:m])
FirstWords(text, m) == Text(m, IF m = text.w THEN text.e ELSE 0)

RECURSIVE BinarySearch(_, _, _, _, _)
BinarySearch(tok, text, left, right, max_tokens) ==
    IF left >= right THEN left
    ELSE LET mid == (left + right + 1) \div 2
         IN IF count_tokens(tok, FirstWords(text, mid)) <= max_tokens
            THEN BinarySearch(tok, text, mid, right, max_tokens)
            ELSE BinarySearch(tok, text, left, mid - 1, max_tokens)

truncate_to_tokens(tok, text, max_tokens) ==
    IF count_tokens(tok, text) <= max_tokens THEN text
    ELSE Text(BinarySearch(tok, text, 0, text.w, max_tokens), 1)

\* Words of the titles and contents of the results.
TitleWords == {1, 60}
ContentWords == {2, 3000, 7000}
ResultShapes == [title : TitleWords, content : ContentWords]
ResultLists == UNION {[1..n -> ResultShapes] : n \in 0..MaxResults}

\* An emitted entry: the result it comes from, its words, and the words of
\* the untruncated entry "**title**\ncontent\n".
Part(i, w, e, full) == [idx |-> i, w |-> w, e |-> e, full |-> full]

\* The loop over search_results from result i on.
RECURSIVE ContextParts(_, _, _, _, _)
ContextParts(tok, results, i, parts, total_tokens) ==
    IF i > Len(results) THEN parts
    ELSE LET title == results[i].title
             content == results[i].content
             entry == Text(title + content, 0)
             entry_tokens == count_tokens(tok, entry)
             remaining_tokens == MaxContextTokens - total_tokens - Buffer
             truncated_content ==
                 truncate_to_tokens(tok, Text(content, 0), remaining_tokens)
         IN IF total_tokens + entry_tokens > MaxContextTokens
            THEN IF remaining_tokens > MinRemaining
                 THEN Append(parts, Part(i, title + truncated_content.w,
                                         truncated_content.e, entry.w))
                 ELSE parts
            ELSE ContextParts(tok, results, i + 1,
                              Append(parts, Part(i, entry.w, 0, entry.w)),
                              total_tokens + entry_tokens)

RECURSIVE SumWords(_)
SumWords(parts) ==
    IF parts = <<>> THEN 0 ELSE parts[1].w + SumWords(Tail(parts))

\* '\n'.join(context_parts)
JoinParts(parts) ==
    Text(SumWords(parts), IF parts = <<>> THEN 0 ELSE parts[Len(parts)].e)

\* The entries that are left, whole or in part, in the first `left` words of
\* the joined context, "..." appended.
RECURSIVE CutParts(_, _)
CutParts(parts, left) ==
    IF parts = <<>> \/ left <= 0 THEN <<>>
    ELSE IF parts[1].w < left
         THEN <<parts[1]>> \o CutParts(Tail(parts), left - parts[1].w)
         ELSE <<[parts[1] EXCEPT !.w = left, !.e = 1]>>

NoRelevantContext == Text(4, 0)

_prepare_optimized_context(tok, search_results) ==
    IF search_results = <<>>
    THEN [context |-> NoRelevantContext, parts |-> <<>>]
    ELSE LET parts == ContextParts(tok, search_results, 1, <<>>, 0)
             context == JoinParts(parts)
             final == truncate_to_tokens(tok, context, MaxContextTokens)
         IN IF count_tokens(tok, context) > MaxContextTokens
            THEN [context |-> final, parts |-> CutParts(parts, final.w)]
            ELSE [context |-> context, parts |-> parts]

ContextInit ==
    /\ store = {}
    /\ storeUp = TRUE
    /\ cache = EmptyCache
    /\ calls = 0
    /\ LateUnused
    /\ last = NoCall
    /\ agents = {}
    /\ ex = NoExec
    /\ co = NoCoord
    /\ reg = NoRegistry
    /\ th = NoThreads
    /\ \E tok \in Tokenizers, results \in ResultLists :
          cx = [pc |-> "call", tokenizer |-> tok, results |-> results,
                context |-> Text(0, 0), parts |-> <<>>]
    /\ sc = NoScoring

PrepareContext ==
    /\ cx.pc = "call"
    /\ LET r == _prepare_optimized_context(cx.tokenizer, cx.results)
       IN cx' = [cx EXCEPT !.pc = "done", !.context = r.context,
                           !.parts = r.parts]
    /\ UNCHANGED <<lateVars, searchVars, orchVars, reg, th, sc>>

ContextNext == PrepareContext

SpecContext == ContextInit /\ [][ContextNext]_vars

\* C16: the assembled context counts no more tokens than the budget, its
\* entries are the first results in order, and only the last of them may be
\* truncated.
C16_ContextWithinBudget ==
    cx.pc = "done" =>
        /\ count_tokens(cx.tokenizer, cx.context) <= MaxContextTokens
        /\ \A n \in 1..Len(cx.parts) : cx.parts[n].idx = n
        /\ \A n \in 1..(Len(cx.parts) - 1) : cx.parts[n].w = cx.parts[n].full

\* ------------------------------------------------------------ the scorers
\* calculate_tf_idf_similarity and calculate_jaccard_similarity computed as
\* the code computes them, step by step.  Python rounds the result of every
\* float operation to the nearest representable number; here every
\* operation is rounded to the nearest multiple of 1/ScoreUnit.
\* number of documents scored in one call
NScored == 2
\* occurrences of one word in one text
MaxCount == 2

ScoreUnit == 1000

\* a / b rounded to the nearest integer, b > 0
RoundDiv(a, b) ==
    IF a >= 0 THEN (2 * a + b) \div (2 * b)
    ELSE 0 - ((2 * (0 - a) + b) \div (2 * b))

FMul(a, b) == RoundDiv(a * b, ScoreUnit)
FDiv(a, b) == RoundDiv(a * ScoreUnit, b)

\* the largest r with r * r <= n
RECURSIVE FloorSqrt(_, _, _)
FloorSqrt(n, lo, hi) ==
    IF lo >= hi THEN lo
    ELSE LET mid == (lo + hi + 1) \div 2
         IN IF mid * mid <= n THEN FloorSqrt(n, mid, hi)
            ELSE FloorSqrt(n, lo, mid - 1)

\* the largest root the search tries: magnitudes stay below 4.0
MaxRoot == 2 * ScoreUnit

\* math.sqrt
FSqrt(a) ==
    LET n == a * ScoreUnit
        r == FloorSqrt(n, 0, Min(n, MaxRoot))
    IN IF n - r * r > r THEN r + 1 ELSE r

\* math.log(n / d)
Ln(n, d) ==
    CASE n = d -> 0
      [] n = 1 /\ d = 2 -> 0 - 693
      [] n = 2 /\ d = 1 -> 693
      [] n = 2 /\ d = 3 -> 0 - 405
      [] n = 3 /\ d = 1 -> 1099
      [] n = 3 /\ d = 2 -> 405
      [] n = 3 /\ d = 4 -> 0 - 288

\* A text after preprocess_text: how often each word occurs in it.
ScoreWords == {"alpha", "beta"}
ScoreTexts == [ScoreWords -> 0..MaxCount]
ScoreDocLists == UNION {[1..n -> ScoreTexts] : n \in 1..NScored}

RECURSIVE SumOver(_, _)
SumOver(f, S) ==
    IF S = {} THEN 0
    ELSE LET x == CHOOSE y \in S : TRUE
         IN f[x] + SumOver(f, S \ {x})

WordsOf(text) == {w \in ScoreWords : text[w] > 0}
LenOf(text) == SumOver(text, ScoreWords)

_cosine_similarity(vec1, vec2) ==
    LET all_keys == DOMAIN vec1 \cup DOMAIN vec2
        dot_product == SumOver([k \in all_keys |-> FMul(vec1[k], vec2[k])], all_keys)
        magnitude1 == FSqrt(SumOver([k \in all_keys |-> FMul(vec1[k], vec1[k])], all_keys))
        magnitude2 == FSqrt(SumOver([k \in all_keys |-> FMul(vec2[k], vec2[k])], all_keys))
    IN IF magnitude1 = 0 \/ magnitude2 = 0 THEN 0
       ELSE FDiv(dot_product, FMul(magnitude1, magnitude2))

calculate_tf_idf_similarity(query, documents) ==
    IF LenOf(query) = 0 THEN [i \in 1..Len(documents) |-> 0]
    ELSE LET all_words == WordsOf(query) \cup
                          UNION {WordsOf(documents[i]) : i \in 1..Len(documents)}
             docs_with_word(w) ==
                 Cardinality({i \in 1..Len(documents) : documents[i][w] > 0})
             idf == [w \in all_words |-> Ln(Len(documents), 1 + docs_with_word(w))]
             tf(text, w) == IF LenOf(text) = 0 THEN 0
                            ELSE RoundDiv(text[w] * ScoreUnit, LenOf(text))
             query_vector == [w \in all_words |-> FMul(tf(query, w), idf[w])]
             doc_vector(i) == [w \in all_words |-> FMul(tf(documents[i], w), idf[w])]
         IN [i \in 1..Len(documents) |->
                _cosine_similarity(query_vector, doc_vector(i))]

calculate_jaccard_similarity(query, documents) ==
    [i \in 1..Len(documents) |->
        IF WordsOf(query) = {} \/ WordsOf(documents[i]) = {} THEN 0
        ELSE RoundDiv(Cardinality(WordsOf(query) \cap WordsOf(documents[i])) * ScoreUnit,
                      Cardinality(WordsOf(query) \cup WordsOf(documents[i])))]

ScoringInit ==
    /\ store = {}
    /\ storeUp = TRUE
    /\ cache = EmptyCache
    /\ calls = 0
    /\ LateUnused
    /\ last = NoCall
    /\ agents = {}
    /\ ex = NoExec
    /\ co = NoCoord
    /\ reg = NoRegistry
    /\ th = NoThreads
    /\ cx = NoContext
    /\ \E query \in ScoreTexts, documents \in ScoreDocLists :
          sc = [pc |-> "call", query |-> query, documents |-> documents,
                alg |-> "none", scores |-> <<>>]

ScoreTfIdf ==
    /\ sc.pc = "call"
    /\ sc' = [sc EXCEPT !.pc = "done", !.alg = "tfidf",
                        !.scores = calculate_tf_idf_similarity(sc.query, sc.documents)]
    /\ UNCHANGED <<lateVars, searchVars, orchVars, reg, th, cx>>

ScoreJaccard ==
    /\ sc.pc = "call"
    /\ sc' = [sc EXCEPT !.pc = "done", !.alg = "jaccard",
                        !.scores = calculate_jaccard_similarity(sc.query, sc.documents)]
    /\ UNCHANGED <<lateVars, searchVars, orchVars, reg, th, cx>>

ScoringNext == ScoreTfIdf \/ ScoreJaccard

SpecScoring == ScoringInit /\ [][ScoringNext]_vars

\* C17: every score a scorer computes lies between 0.0 and 1.0.
C17_ScoresInUnitInterval ==
    sc.pc = "done" =>
        \A i \in 1..Len(sc.scores) : sc.scores[i] >= 0 /\ sc.scores[i] <= ScoreUnit

\* C18: every result of an advanced search carries a confidence equal to its
\* score and the name of the algorithm the search was made with.
C18_ConfidenceAndAlgorithmRecorded ==
    IsAdvanced =>
        \A i \in 1..Len(last.res) :
            /\ last.res[i].conf = last.res[i].score
            /\ last.res[i].alg = last.alg

\* ------------------------------------------- searches over a changing store
\* DELETE /documents/{document_id}: the document leaves the store; the
\* result cache is not touched.
DeleteDocument(d) ==
    /\ calls < MaxCalls
    /\ d \in store
    /\ store' = store \ {d}
    /\ UNCHANGED <<lateVars, storeUp, cache, calls, last, orchVars, moreVars>>

FusionNext ==
    \/ \E alg \in AdvancedAlgs, k \in TopKs, t \in Thresholds : AdvancedSearch(alg, k, t)
    \/ \E d \in store : DeleteDocument(d)

SpecFusion == SearchInit /\ [][FusionNext]_vars

\* The score the list gives the document (0 when the list does not hold it).
DocScore(results, doc) ==
    IF \E i \in 1..Len(results) : results[i].doc = doc
    THEN results[CHOOSE i \in 1..Len(results) : results[i].doc = doc].score
    ELSE 0

DocsIn(results) == {results[i].doc : i \in 1..Len(results)}

\* The fused list `fused` of a hybrid search made from the state (c, st, up):
\* every document of either list is in it, with 0.7 of its own semantic score
\* plus 0.3 of its own keyword score.
FusedPerChunk(c, st, up, lst) ==
    LET sem == semantic_search(c, st, up, lst.k, lst.thr)
        kw == named_search(sem.cache, st, up, lst.k, "keyword")
    IN /\ DocsIn(lst.cands) = DocsIn(sem.res) \cup DocsIn(kw.res)
       /\ \A i \in 1..Len(lst.cands) :
             lst.cands[i].score =
                 (7 * DocScore(sem.res, lst.cands[i].doc)
                    + 3 * DocScore(kw.res, lst.cands[i].doc)) \div 10

\* C19: a hybrid search fuses, for every chunk either side found, that
\* chunk's semantic score and that same chunk's keyword score.
C19_FusionPerChunk ==
    [][(calls' = calls + 1 /\ last'.op = "advanced" /\ last'.alg = "hybrid") =>
          FusedPerChunk(cache, store, storeUp, last')]_vars

\* The documents among the candidates of the last call all carry the score
\* the scorer `scorer` gives them.
ScoredBy(scorer) ==
    \A i \in 1..Len(last.cands) :
        last.cands[i].doc \in Docs =>
            last.cands[i].score = ScoreOf(scorer, last.cands[i].doc)

\* C20: a semantic search scores with the semantic scorer alone, a keyword
\* search with one lexical scorer alone.
C20_SingleScorerDispatch ==
    /\ (IsAdvanced /\ last.alg = "semantic") => ScoredBy("semantic")
    /\ (IsAdvanced /\ last.alg = "keyword") =>
           (ScoredBy("tfidf") \/ ScoredBy("jaccard"))

\* ---------------------------------------------------------- the classifier
\* analyze_query called on the one orchestrator, get_or_create_agent calls
\* before and between.
\* number of analyze_query calls in one behaviour
MaxClassify == 2

\* The parts of the state the later specifications do not use.
EarlyUnused ==
    /\ store = {}
    /\ storeUp = TRUE
    /\ cache = EmptyCache
    /\ calls = 0
    /\ last = NoCall
    /\ ex = NoExec
    /\ co = NoCoord
    /\ reg = NoRegistry
    /\ th = NoThreads
    /\ cx = NoContext
    /\ sc = NoScoring

\* Queries by the indicator words that occur in them.
ClassifierWords == {"what", "analyze", "design", "creative", "research"}
ClassifierQueries == SUBSET ClassifierWords

ClassifyInit ==
    /\ EarlyUnused
    /\ agents = {}
    /\ cl = [calls |-> <<>>]
    /\ hb = Unused
    /\ rc = Unused
    /\ sg = Unused
    /\ gr = Unused
    /\ mc = Unused

\* analyze_query(query): the call with its result, and the registry it ran
\* against.
Classify(q) ==
    /\ Len(cl.calls) < MaxClassify
    /\ cl' = [cl EXCEPT !.calls =
                 Append(@, [query |-> q, analysis |-> analyze_query(q),
                            registry |-> agents])]
    /\ UNCHANGED <<searchVars, orchVars, moreVars, hb, rc, sg, gr, mc>>

\* get_or_create_agent(type), run before or between classifier calls.
ClassifyRegister(type) ==
    /\ Len(cl.calls) < MaxClassify
    /\ type \notin agents
    /\ agents' = get_or_create_agent(agents, type).agents
    /\ UNCHANGED <<searchVars, ex, co, moreVars, lateVars>>

ClassifyNext ==
    \/ \E q \in ClassifierQueries : Classify(q)
    \/ \E type \in {"general", "research"} : ClassifyRegister(type)

SpecClassify == ClassifyInit /\ [][ClassifyNext]_vars

Hits(q, family) == Cardinality(q \cap AgentIndicators(family))
Families == Range(AgentOrder)

\* C21: the classifier answers with the family that has strictly the most
\* indicator hits, and with general when no family has a hit or the most
\* hits are shared.
C21_StrictMostHitsOrGeneral ==
    \A n \in 1..Len(cl.calls) :
        LET q == cl.calls[n].query
            winners == {f \in Families :
                           /\ Hits(q, f) > 0
                           /\ \A g \in Families \ {f} : Hits(q, g) < Hits(q, f)}
        IN IF winners = {} THEN cl.calls[n].analysis.agent_type = "general"
           ELSE cl.calls[n].analysis.agent_type \in winners

\* C22: the complexity returned is that of the first family, in the order
\* simple, moderate, complex, expert, with an indicator in the query, and
\* simple when no family has one.
C22_FirstMatchingComplexity ==
    \A n \in 1..Len(cl.calls) :
        LET q == cl.calls[n].query
            matching == {i \in 1..Len(ComplexityOrder) :
                            q \cap ComplexityIndicators(ComplexityOrder[i]) # {}}
        IN IF matching = {} THEN cl.calls[n].analysis.complexity = "simple"
           ELSE \E i \in matching :
                   /\ \A j \in matching : i <= j
                   /\ cl.calls[n].analysis.complexity = ComplexityOrder[i]

\* A query with indicators of an earlier and of a later family was classified.
C22_TwoFamiliesMatched ==
    \E n \in 1..Len(cl.calls) :
        /\ "what" \in cl.calls[n].query
        /\ "design" \in cl.calls[n].query
        /\ cl.calls[n].analysis.complexity = "simple"

NStreams == 2

StreamIds == 1..NStreams

\* StreamingService.__init__: max_concurrent_streams
MaxConcurrentStreams == 100

\* A heartbeat task: not created, pending (created, not yet run), asleep in
\* its loop, cancelling (cancel() called, CancelledError not yet delivered),
\* done.
TaskStates == {"none", "pending", "asleep", "cancelling", "done"}

LiveTask == {"pending", "asleep"}

\* Task.cancel()
cancel(task) == IF task = "done" THEN "done" ELSE "cancelling"

\* A removal that deletes the stream and leaves its task alone.
forget_stream(h, s) ==
    [h EXCEPT !.active_streams = @ \ {s}]

\* complete_stream / send_error: `if stream_id in self.active_streams:` cancel
\* the task and delete the entry.
remove_stream(h, s) ==
    IF s \in h.active_streams
    THEN [h EXCEPT !.task[s] = cancel(@), !.active_streams = @ \ {s}]
    ELSE h

\* active_streams, each stream's task, the streams older than the timeout,
\* the close_stream calls suspended in `await task`, the streams a running
\* cleanup_expired_streams still has to close, and how each stream ended.
StreamsInit ==
    /\ EarlyUnused
    /\ agents = {}
    /\ cl = Unused
    /\ hb = [active_streams |-> {},
             task |-> [s \in StreamIds |-> "none"],
             old |-> {},
             closing |-> [s \in StreamIds |-> 0],
             sweep |-> <<>>,
             sweeping |-> FALSE,
             ended |-> [s \in StreamIds |-> "no"],
             raised |-> FALSE]
    /\ rc = Unused
    /\ sg = Unused
    /\ gr = Unused
    /\ mc = Unused

StreamsRest == <<searchVars, orchVars, moreVars, cl, rc, sg, gr, mc>>

\* create_stream: the task is created and the stream registered with no await
\* in between.
CreateStream(s) ==
    /\ hb.task[s] = "none"
    /\ \A e \in StreamIds : e < s => hb.task[e] # "none"
    /\ Cardinality(hb.active_streams) < MaxConcurrentStreams
    /\ hb' = [hb EXCEPT !.task[s] = "pending", !.active_streams = @ \cup {s}]
    /\ UNCHANGED StreamsRest

\* _stream_heartbeat: the task starts, or wakes from its sleep, tests
\* `stream_id in active_streams` and sleeps again or returns.
HeartbeatWake(s) ==
    /\ hb.task[s] \in LiveTask
    /\ hb' = [hb EXCEPT !.task[s] = IF s \in hb.active_streams THEN "asleep" ELSE "done"]
    /\ UNCHANGED StreamsRest

\* _stream_heartbeat: CancelledError is delivered and swallowed.
HeartbeatCancelled(s) ==
    /\ hb.task[s] = "cancelling"
    /\ hb' = [hb EXCEPT !.task[s] = "done"]
    /\ UNCHANGED StreamsRest

\* time passes: the stream becomes older than the timeout
StreamAges(s) ==
    /\ s \in hb.active_streams
    /\ s \notin hb.old
    /\ hb' = [hb EXCEPT !.old = @ \cup {s}]
    /\ UNCHANGED StreamsRest

Ended(h, s, how) ==
    IF s \in h.active_streams /\ h.ended[s] = "no" THEN how ELSE h.ended[s]

CompleteStream(s) ==
    /\ hb.task[s] # "none"
    /\ hb' = [remove_stream(hb, s) EXCEPT !.ended[s] = Ended(hb, s, "completed")]
    /\ UNCHANGED StreamsRest

SendError(s) ==
    /\ hb.task[s] # "none"
    /\ hb' = [remove_stream(hb, s) EXCEPT !.ended[s] = Ended(hb, s, "error")]
    /\ UNCHANGED StreamsRest

\* close_stream up to `await task`; for an unknown stream it returns False.
close_stream_start(h, s) ==
    IF s \in h.active_streams
    THEN [h EXCEPT !.task[s] = cancel(@), !.closing[s] = @ + 1]
    ELSE h

\* close_stream after `await task`: `del self.active_streams[stream_id]`
\* raises KeyError when another call removed the stream meanwhile.
close_stream_finish(h, s, how) ==
    IF s \in h.active_streams
    THEN [h EXCEPT !.active_streams = @ \ {s}, !.closing[s] = @ - 1,
                   !.ended[s] = Ended(h, s, how)]
    ELSE [h EXCEPT !.closing[s] = @ - 1, !.raised = TRUE]

\* a caller of close_stream (modules/streaming.py close_stream)
CloseStreamStart(s) ==
    /\ hb.task[s] # "none"
    /\ hb.closing[s] < 2
    /\ hb' = close_stream_start(hb, s)
    /\ UNCHANGED StreamsRest

CloseStreamFinish(s) ==
    /\ hb.closing[s] > 0
    /\ hb.task[s] = "done"
    /\ ~(hb.sweeping /\ hb.sweep # <<>> /\ Head(hb.sweep) = s /\ hb.closing[s] = 1)
    /\ hb' = close_stream_finish(hb, s, "closed")
    /\ UNCHANGED StreamsRest

\* cleanup_expired_streams: collect the expired streams (no await), then
\* close them one after another; the first close_stream runs in the same step
\* up to its `await task`.
SweepFrom(h, todo) ==
    IF todo = <<>>
    THEN [h EXCEPT !.sweep = <<>>, !.sweeping = FALSE]
    ELSE [close_stream_start(h, Head(todo)) EXCEPT !.sweep = todo, !.sweeping = TRUE]

RECURSIVE SkipClosed(_, _)
\* close_stream of a stream that is gone returns at once, without suspending
SkipClosed(h, todo) ==
    IF todo = <<>> \/ Head(todo) \in h.active_streams THEN todo
    ELSE SkipClosed(h, Tail(todo))

CleanupExpiredStart ==
    /\ ~hb.sweeping
    /\ hb.active_streams \cap hb.old # {}
    /\ hb' = SweepFrom(hb, SetToSeq(hb.active_streams \cap hb.old))
    /\ UNCHANGED StreamsRest

CleanupExpiredStep ==
    /\ hb.sweeping
    /\ hb.task[Head(hb.sweep)] = "done"
    /\ LET s == Head(hb.sweep)
           h == close_stream_finish(hb, s, "expired")
       IN hb' = IF h.raised /\ ~hb.raised
                THEN [h EXCEPT !.sweep = <<>>, !.sweeping = FALSE]
                ELSE SweepFrom(h, SkipClosed(h, Tail(hb.sweep)))
    /\ UNCHANGED StreamsRest

StreamsNext ==
    \/ \E s \in StreamIds : CreateStream(s)
    \/ \E s \in StreamIds : HeartbeatWake(s)
    \/ \E s \in StreamIds : HeartbeatCancelled(s)
    \/ \E s \in StreamIds : StreamAges(s)
    \/ \E s \in StreamIds : CompleteStream(s)
    \/ \E s \in StreamIds : SendError(s)
    \/ \E s \in StreamIds : CloseStreamStart(s)
    \/ \E s \in StreamIds : CloseStreamFinish(s)
    \/ CleanupExpiredStart
    \/ CleanupExpiredStep

SpecStreams == StreamsInit /\ [][StreamsNext]_vars

\* C24: a heartbeat task does not outlive its stream: the task of a stream
\* that was completed, failed, closed or removed as expired has been
\* cancelled, and every live heartbeat task belongs to a registered stream.
C24_HeartbeatWithinStream ==
    \A s \in StreamIds :
        /\ hb.task[s] \in LiveTask => s \in hb.active_streams
        /\ hb.ended[s] # "no" => hb.task[s] \in {"cancelling", "done"}

\* Streams ended by completion and by expiry, their heartbeats cancelled.
C24_StreamsEnded ==
    /\ \E s \in StreamIds : hb.ended[s] = "expired" /\ hb.task[s] = "done"
    /\ \E s \in StreamIds : hb.ended[s] \in {"completed", "error"}


\* ---------------------------------------------------------------------------
\* RAGAgent._get_rag_context (src/app/services/agent_executor.py)
\* ---------------------------------------------------------------------------

\* number of _get_rag_context calls in one behaviour
MaxContextCalls == 3

\* top_k of the search made by _get_rag_context
RagContextTopK == 5

\* How `await asyncio.wait_for(rag_engine.similarity_search(...), 5.0)` ends:
\* the search returns, the wait times out, or the search raises.
\* RAGEngine.similarity_search catches every Exception itself and returns [],
\* so with the store down it returns <<>> like a search that found nothing.
wait_for_search(c, st, up, slow) ==
    IF slow THEN [kind |-> "timeout", res |-> <<>>, cache |-> c]
    ELSE LET r == similarity_search(c, st, up, Some(RagContextTopK), None, "hybrid")
         IN [kind |-> "returned", res |-> r.res, cache |-> r.cache]

\* _get_rag_context: the record built in the try body and in the two handlers
context_record(outcome) ==
    CASE outcome.kind = "returned" ->
            [context |-> outcome.res, search_type |-> "similarity",
             results_count |-> Len(outcome.res)]
      [] outcome.kind = "timeout" ->
            [context |-> <<>>, search_type |-> "timeout", results_count |-> 0]
      [] OTHER ->
            [context |-> <<>>, search_type |-> "error", results_count |-> 0]

RagContextInit ==
    /\ store \in InitialStores
    /\ storeUp = TRUE
    /\ cache = EmptyCache
    /\ calls = 0
    /\ last = NoCall
    /\ agents = {}
    /\ ex = NoExec
    /\ co = NoCoord
    /\ reg = NoRegistry
    /\ th = NoThreads
    /\ cx = NoContext
    /\ sc = NoScoring
    /\ cl = Unused
    /\ hb = Unused
    /\ rc = [calls |-> <<>>]
    /\ sg = Unused
    /\ gr = Unused
    /\ mc = Unused

\* Each call is recorded with what happened to the retrieval: it exceeded the
\* bound, it failed (store unavailable, nothing answered from the cache), or
\* it succeeded.
GetRagContext(slow) ==
    /\ Len(rc.calls) < MaxContextCalls
    /\ LET outcome == wait_for_search(cache, store, storeUp, slow)
           key == [k |-> Some(RagContextTopK), alg |-> "hybrid"]
           fate == IF slow THEN "exceeded"
                   ELSE IF ~storeUp /\ CacheGet(cache, key) = <<>> THEN "failed"
                   ELSE "succeeded"
       IN /\ cache' = outcome.cache
          /\ rc' = [rc EXCEPT !.calls =
                       Append(@, [fate |-> fate, record |-> context_record(outcome)])]
    /\ UNCHANGED <<store, storeUp, calls, last, orchVars, moreVars, cl, hb, sg, gr, mc>>

RagContextNext ==
    \/ \E slow \in BOOLEAN : GetRagContext(slow)
    \/ StoreFail
    \/ StoreRecover

SpecRagContext == RagContextInit /\ [][RagContextNext]_vars

\* C25: context retrieval returns the search results on success, an empty
\* context marked as a timeout when retrieval exceeds its bound, and an empty
\* context marked as a generic error on any other failure.
C25_ContextRecordByOutcome ==
    \A n \in 1..Len(rc.calls) :
        LET call == rc.calls[n]
        IN /\ call.fate = "exceeded" =>
                call.record.search_type = "timeout" /\ call.record.context = <<>>
           /\ call.fate = "failed" =>
                call.record.search_type = "error" /\ call.record.context = <<>>
           /\ call.fate = "succeeded" => call.record.search_type = "similarity"


\* C26: when every strategy of a coordination call fails the result is not
\* marked success; a result is marked success only if at least one strategy
\* produced a response.
C26_SuccessNeedsAResponse ==
    co.pc = "done" =>
        /\ FailedCount = Len(co.tasks) => co.out.status # "success"
        /\ co.out.status = "success" => Succeeded(co.tasks) # <<>>


\* ---------------------------------------------------------------------------
\* Deduplication over stores that hold a chain of near duplicates
\* ---------------------------------------------------------------------------

\* documents a store may hold; documents 1, 2 and 4 form a chain of near
\* duplicates (1 ~ 2, 2 ~ 4, not 1 ~ 4)
NDedupDocs == 4

DedupStores == SUBSET (1..NDedupDocs)

\* thresholds the calls are made with: not given, or 0.05
DedupThresholds == {None, Some(50)}

DedupInit ==
    /\ store \in DedupStores
    /\ storeUp = TRUE
    /\ cache = EmptyCache
    /\ calls = 0
    /\ LateUnused
    /\ last = NoCall
    /\ agents = {}
    /\ ex = NoExec
    /\ co = NoCoord
    /\ reg = NoRegistry
    /\ th = NoThreads
    /\ cx = NoContext
    /\ sc = NoScoring

\* one advanced_search call against the store
DedupSearch(alg, k, thrOpt) ==
    /\ calls = 0
    /\ AdvancedSearch(alg, k, thrOpt)

DedupNext ==
    \E alg \in AdvancedAlgs, k \in TopKs, t \in DedupThresholds : DedupSearch(alg, k, t)

SpecDedup == DedupInit /\ [][DedupNext]_vars

\* The candidates that pass the threshold filter, as deduplication visits
\* them, and the ones it keeps.
Visited == FilterSeq(last.cands, last.thr)

Deduplicated == deduplicate_results(Visited)

Descending(s) == \A i, j \in 1..Len(s) : i < j => s[i].score >= s[j].score

\* C27 as stated: deduplication visits the candidates in descending score
\* order, and of near-duplicate candidates the one kept is the one with the
\* highest score.
C27_KeptIsHighestOfNearDuplicates ==
    last.op = "advanced" =>
        /\ Descending(Visited)
        /\ \A i \in 1..Len(Deduplicated), j \in 1..Len(Visited) :
              NearDuplicate(Deduplicated[i].words, Visited[j].words) =>
                  Visited[j].score <= Deduplicated[i].score

\* C27: deduplication visits the candidates in descending score order and
\* drops a candidate exactly when it is a near duplicate of one kept before
\* it: no two kept candidates are near duplicates, every dropped candidate
\* has a kept near duplicate with a score at least as high, and the returned
\* results are kept candidates.
C27_DroppedHasHigherKeptDuplicate ==
    last.op = "advanced" =>
        /\ Descending(Visited)
        /\ \A i, j \in 1..Len(Deduplicated) :
              i # j => ~NearDuplicate(Deduplicated[i].words, Deduplicated[j].words)
        /\ \A j \in 1..Len(Visited) :
              Visited[j] \notin Range(Deduplicated) =>
                  \E i \in 1..Len(Deduplicated) :
                      /\ NearDuplicate(Deduplicated[i].words, Visited[j].words)
                      /\ Deduplicated[i].score >= Visited[j].score
        /\ Range(last.res) \subseteq Range(Deduplicated)

\* A chain of near duplicates was visited: the middle one was dropped for the
\* first, the last one was kept.
C27_ChainVisited ==
    /\ last.op = "advanced"
    /\ \E i, j \in 1..Len(Visited) :
          /\ i < j
          /\ NearDuplicate(Visited[i].words, Visited[j].words)
          /\ Visited[i] \notin Range(Deduplicated)
          /\ Visited[j] \in Range(Deduplicated)


\* ---------------------------------------------------------------------------
\* Streaming generation: AgentOrchestrator.execute_query(stream=True),
\* AgentExecutor.execute_query_stream and _stream_run
\* ---------------------------------------------------------------------------

\* provider events one run delivers before its stream has to end
MaxProviderEvents == 4

\* Events of the provider's run stream that _stream_run tells apart; "other"
\* is any event it has no branch for (run steps, cancelled, expired, ...).
ProviderEvents == {"requires_action", "delta", "completed", "failed", "other"}

NoStream == [pc |-> "idle", path |-> "none", events |-> <<>>, delivered |-> 0]

StreamGenInit ==
    /\ EarlyUnused
    /\ agents = {}
    /\ cl = Unused
    /\ hb = Unused
    /\ rc = Unused
    /\ sg = NoStream
    /\ gr = Unused
    /\ mc = Unused

StreamGenRest == <<searchVars, orchVars, moreVars, cl, hb, rc, gr, mc>>

Emit(s, event) == [s EXCEPT !.events = Append(@, event)]

\* execute_query(stream=True).  When the executor is obtained, the generator
\* of _execute_streaming_query is returned; it yields the orchestration event
\* first.  When that raises and the general-purpose executor is obtained,
\* fallback_stream is returned; it yields an error event first and then
\* relays the fallback executor's stream.  When that raises too, a dictionary
\* is returned instead of a stream.
OpenStream(primaryOk, fallbackOk) ==
    /\ sg.pc = "idle"
    /\ sg' = IF primaryOk
             THEN [Emit(sg, "orchestration") EXCEPT !.pc = "open", !.path = "primary"]
             ELSE IF fallbackOk
             THEN [Emit(sg, "error") EXCEPT !.pc = "open", !.path = "fallback"]
             ELSE [sg EXCEPT !.pc = "returned", !.path = "none"]
    /\ UNCHANGED StreamGenRest

\* execute_query_stream up to the run: the assistant is unavailable, or
\* creating the thread or the message or the run raises: one error event.
StreamSetup(ok) ==
    /\ sg.pc = "open"
    /\ sg' = IF ok THEN [sg EXCEPT !.pc = "run"]
             ELSE [Emit(sg, "error") EXCEPT !.pc = "done"]
    /\ UNCHANGED StreamGenRest

\* _stream_run: one turn of `async for event in stream`.  handled is FALSE
\* when handling the tool calls of a requires_action event raises.
stream_run_event(s, event, handled) ==
    LET t == [s EXCEPT !.delivered = @ + 1]
    IN CASE event = "delta" -> Emit(t, "chunk")
         [] event = "completed" -> [Emit(t, "complete") EXCEPT !.pc = "done"]
         [] event = "failed" -> [Emit(t, "error") EXCEPT !.pc = "done"]
         [] event = "requires_action" ->
               IF handled THEN t ELSE [Emit(t, "error") EXCEPT !.pc = "done"]
         [] OTHER -> t

StreamRunEvent(event, handled) ==
    /\ sg.pc = "run"
    /\ sg.delivered < MaxProviderEvents
    /\ sg' = stream_run_event(sg, event, handled)
    /\ UNCHANGED StreamGenRest

\* The provider's stream ends (the loop falls through), or reading it raises
\* (execute_query_stream's handler yields one error event).
StreamRunEnds(raises) ==
    /\ sg.pc = "run"
    /\ sg' = IF raises THEN [Emit(sg, "error") EXCEPT !.pc = "done"]
             ELSE [sg EXCEPT !.pc = "done"]
    /\ UNCHANGED StreamGenRest

StreamGenNext ==
    \/ \E primaryOk, fallbackOk \in BOOLEAN : OpenStream(primaryOk, fallbackOk)
    \/ \E ok \in BOOLEAN : StreamSetup(ok)
    \/ \E event \in ProviderEvents, handled \in BOOLEAN : StreamRunEvent(event, handled)
    \/ \E raises \in BOOLEAN : StreamRunEnds(raises)

SpecStreamGen == StreamGenInit /\ [][StreamGenNext]_vars

Terminal(event) == event \in {"complete", "error"}

\* C28: a streaming generation, on the primary and on the fallback path,
\* yields chunk events followed by exactly one terminal event (completion or
\* error): nothing is yielded after a terminal event and a finished stream
\* ends with one.
C28_OneTerminalEventLast ==
    /\ \A i \in 1..Len(sg.events) : Terminal(sg.events[i]) => i = Len(sg.events)
    /\ sg.pc = "done" => sg.events # <<>> /\ Terminal(sg.events[Len(sg.events)])


\* ---------------------------------------------------------------------------
\* RAGEngine.get_context and generate_response (src/app/services/rag_engine.py)
\* ---------------------------------------------------------------------------

\* number of generate_response calls in one behaviour
MaxGenerate == 2

\* top_k of the search made by get_context
ContextTopK == 8

\* A context string by its kind: None, "", white space only, the sentinel
\* "No relevant context found.", "Error retrieving context.", or a text built
\* from documents.
GivenContexts == {"none", "empty", "blank", "sentinel", "text"}

\* get_context: the sentinel when the search returns nothing or no document
\* fits, the header and the documents otherwise; the error text when the body
\* raises.  (similarity_search returns [] when the store fails.)
get_context(c, st, up, fits, raises) ==
    LET r == similarity_search(c, st, up, Some(ContextTopK), None, "hybrid")
    IN IF r.res = <<>> THEN [context |-> "sentinel", cache |-> r.cache]
       ELSE IF raises THEN [context |-> "error_text", cache |-> r.cache]
       ELSE IF ~fits THEN [context |-> "sentinel", cache |-> r.cache]
       ELSE [context |-> "text", cache |-> r.cache]

\* generate_response after the context is known: the fixed answer without a
\* provider call, the rule-based answer when there is no client, the
\* provider's answer, or the rule-based answer when the provider call raises.
respond(context, client, llmOk) ==
    IF context \in {"empty", "blank", "sentinel"}
    THEN [answer |-> "no_information", llm_called |-> FALSE]
    ELSE IF ~client THEN [answer |-> "rule_based", llm_called |-> FALSE]
    ELSE IF llmOk THEN [answer |-> "generated", llm_called |-> TRUE]
    ELSE [answer |-> "rule_based", llm_called |-> TRUE]

GenerateInit ==
    /\ store \in InitialStores
    /\ storeUp = TRUE
    /\ cache = EmptyCache
    /\ calls = 0
    /\ last = NoCall
    /\ agents = {}
    /\ ex = NoExec
    /\ co = NoCoord
    /\ reg = NoRegistry
    /\ th = NoThreads
    /\ cx = NoContext
    /\ sc = NoScoring
    /\ cl = Unused
    /\ hb = Unused
    /\ rc = Unused
    /\ sg = Unused
    /\ gr = [client |-> TRUE, calls |-> <<>>]
    /\ mc = Unused

GenerateRest == <<store, storeUp, calls, last, orchVars, moreVars, cl, hb, rc, sg, mc>>

\* generate_response(query, context).  Each call is recorded with whether a
\* context was retrieved for it: a given text, or documents found and put
\* into a context by get_context.
GenerateResponse(given, fits, raises, llmOk) ==
    /\ Len(gr.calls) < MaxGenerate
    /\ LET g == IF given = "none" THEN get_context(cache, store, storeUp, fits, raises)
                ELSE [context |-> given, cache |-> cache]
           r == respond(g.context, gr.client, llmOk)
       IN /\ cache' = g.cache
          /\ gr' = [gr EXCEPT !.calls =
                       Append(@, [given |-> given, context |-> g.context,
                                  retrieved |-> g.context = "text",
                                  answer |-> r.answer, llm_called |-> r.llm_called])]
    /\ UNCHANGED GenerateRest

\* the provider client is configured, or not (no API key)
ClientSwitch ==
    /\ Len(gr.calls) < MaxGenerate
    /\ gr' = [gr EXCEPT !.client = ~@]
    /\ UNCHANGED <<searchVars, orchVars, moreVars, cl, hb, rc, sg, mc>>

GenerateNext ==
    \/ \E given \in GivenContexts, fits, raises, llmOk \in BOOLEAN :
          GenerateResponse(given, fits, raises, llmOk)
    \/ ClientSwitch
    \/ StoreFail
    \/ StoreRecover

SpecGenerate == GenerateInit /\ [][GenerateNext]_vars

\* C29: response generation never calls the language-model provider when no
\* context was retrieved for the query, also when context retrieval itself
\* failed; it returns the fixed no-information answer.
C29_NoContextNoProviderCall ==
    \A n \in 1..Len(gr.calls) :
        ~gr.calls[n].retrieved =>
            /\ ~gr.calls[n].llm_called
            /\ gr.calls[n].answer = "no_information"


\* ---------------------------------------------------------------------------
\* MemoryCache (src/app/services/memory_cache.py)
\* ---------------------------------------------------------------------------

\* MemoryCache.max_size, scaled down
max_size == 2
\* number of distinct keys used
NCacheKeys == 3
\* number of set and successful get operations in one behaviour
MaxCacheOps == 4

CacheKeys == 1..NCacheKeys

\* _cache is an OrderedDict: a sequence of entries, the first one the oldest.
\* An entry is expired once the time has passed its expire_time.
HasKey(entries, key) == \E i \in 1..Len(entries) : entries[i].key = key
EntryOf(entries, key) == entries[CHOOSE i \in 1..Len(entries) : entries[i].key = key]
WithoutKey(entries, key) == SelectSeq(entries, LAMBDA e : e.key # key)
KeysOf(entries) == {entries[i].key : i \in 1..Len(entries)}

\* A get that returns the value and leaves the entry where it is.
cache_get_in_place(entries, key) ==
    IF ~HasKey(entries, key) THEN [entries |-> entries, hit |-> FALSE]
    ELSE IF EntryOf(entries, key).expired
    THEN [entries |-> WithoutKey(entries, key), hit |-> FALSE]
    ELSE [entries |-> entries, hit |-> TRUE]

\* get: a miss, an expired entry deleted, or a hit moved to the end
cache_get(entries, key) ==
    IF ~HasKey(entries, key) THEN [entries |-> entries, hit |-> FALSE]
    ELSE IF EntryOf(entries, key).expired
    THEN [entries |-> WithoutKey(entries, key), hit |-> FALSE]
    ELSE [entries |-> Append(WithoutKey(entries, key), EntryOf(entries, key)),
          hit |-> TRUE]

\* set: `while len(self._cache) > self.max_size:` delete the first entry
RECURSIVE EvictOldest(_)
EvictOldest(entries) ==
    IF Len(entries) > max_size THEN EvictOldest(Tail(entries)) ELSE entries

\* set: store the item, move it to the end, evict
cache_set(entries, key) ==
    EvictOldest(Append(WithoutKey(entries, key), [key |-> key, expired |-> FALSE]))

\* exists: an expired entry is deleted; the order is left alone
cache_exists(entries, key) ==
    IF HasKey(entries, key) /\ EntryOf(entries, key).expired
    THEN WithoutKey(entries, key) ELSE entries

NoCacheOp == [op |-> "none", key |-> 0, evicted |-> {}, usedBefore |-> <<>>, bornBefore |-> <<>>]

\* clock counts the sets and the successful gets; used[k] is the clock of the
\* last set or successful get of k, born[k] that of its last set.
MemoryCacheInit ==
    /\ EarlyUnused
    /\ agents = {}
    /\ cl = Unused
    /\ hb = Unused
    /\ rc = Unused
    /\ sg = Unused
    /\ gr = Unused
    /\ mc = [entries |-> <<>>, clock |-> 0,
             used |-> [k \in CacheKeys |-> 0], born |-> [k \in CacheKeys |-> 0],
             lastOp |-> NoCacheOp]

MemoryCacheRest == <<searchVars, orchVars, moreVars, cl, hb, rc, sg, gr>>

CacheGetOp(key) ==
    LET g == cache_get(mc.entries, key)
    IN /\ mc.clock < MaxCacheOps
       /\ mc' = [mc EXCEPT !.entries = g.entries,
                           !.clock = IF g.hit THEN @ + 1 ELSE @,
                           !.used[key] = IF g.hit THEN mc.clock + 1 ELSE @,
                           !.lastOp = [NoCacheOp EXCEPT !.op = "get", !.key = key]]
       /\ UNCHANGED MemoryCacheRest

CacheSetOp(key) ==
    LET entries == cache_set(mc.entries, key)
    IN /\ mc.clock < MaxCacheOps
       /\ mc' = [mc EXCEPT !.entries = entries,
                           !.clock = @ + 1,
                           !.used[key] = mc.clock + 1,
                           !.born[key] = mc.clock + 1,
                           !.lastOp = [op |-> "set", key |-> key,
                                       evicted |-> (KeysOf(mc.entries) \cup {key}) \ KeysOf(entries),
                                       usedBefore |-> mc.used, bornBefore |-> mc.born]]
       /\ UNCHANGED MemoryCacheRest

CacheDeleteOp(key) ==
    /\ HasKey(mc.entries, key)
    /\ mc' = [mc EXCEPT !.entries = WithoutKey(@, key),
                        !.lastOp = [NoCacheOp EXCEPT !.op = "delete", !.key = key]]
    /\ UNCHANGED MemoryCacheRest

CacheExistsOp(key) ==
    /\ mc' = [mc EXCEPT !.entries = cache_exists(@, key),
                        !.lastOp = [NoCacheOp EXCEPT !.op = "exists", !.key = key]]
    /\ UNCHANGED MemoryCacheRest

\* time passes an entry's expire_time
CacheItemExpires(key) ==
    /\ HasKey(mc.entries, key)
    /\ ~EntryOf(mc.entries, key).expired
    /\ mc' = [mc EXCEPT !.entries =
                 [i \in 1..Len(@) |-> IF @[i].key = key
                                      THEN [@[i] EXCEPT !.expired = TRUE] ELSE @[i]]]
    /\ UNCHANGED MemoryCacheRest

MemoryCacheNext ==
    \/ \E key \in CacheKeys : CacheGetOp(key)
    \/ \E key \in CacheKeys : CacheSetOp(key)
    \/ \E key \in CacheKeys : CacheDeleteOp(key)
    \/ \E key \in CacheKeys : CacheExistsOp(key)
    \/ \E key \in CacheKeys : CacheItemExpires(key)

SpecMemoryCache == MemoryCacheInit /\ [][MemoryCacheNext]_vars

\* C30: the cache never holds more than max_size entries, and the entries a
\* set evicts are the least recently used ones (by set and successful get),
\* never the entry just written.
C30_BoundedAndLeastRecentlyUsedEvicted ==
    /\ Len(mc.entries) <= max_size
    /\ mc.lastOp.op = "set" =>
          /\ mc.lastOp.key \in KeysOf(mc.entries)
          /\ mc.lastOp.key \notin mc.lastOp.evicted
          /\ \A e \in mc.lastOp.evicted, r \in KeysOf(mc.entries) \ {mc.lastOp.key} :
                mc.lastOp.usedBefore[e] < mc.lastOp.usedBefore[r]

\* A set evicted an entry that was written after a surviving entry: the
\* survivor had been refreshed by a successful get.
C30_EvictedAfterRefresh ==
    /\ mc.lastOp.op = "set"
    /\ \E e \in mc.lastOp.evicted, r \in KeysOf(mc.entries) \ {mc.lastOp.key} :
          mc.lastOp.bornBefore[r] < mc.lastOp.bornBefore[e]

====
